---- MODULE Spec2Model ----
(***************************************************************************)
(* Model of option_data_collector.py: the value normalizer (to_python),    *)
(* the compatible method invoker (try_call), the batched fetcher            *)
(* (chunked, fetch_batched), the chain helpers (extract_option_symbols,    *)
(* filter_chain_rows) and the collection run (main).                        *)
(*                                                                         *)
(* Python values are tagged records [t |-> <type>, v |-> <payload>].       *)
(* A str is a sequence of one-character strings, so that comparison,       *)
(* formatting and parsing are computed and not assumed.  Dictionary keys   *)
(* and attribute names are TLA+ strings (they are str in the program, so   *)
(* str(k) leaves them alone).  A float is its value in tenths.             *)
(***************************************************************************)
EXTENDS Integers, Sequences, FiniteSets, TLC

\* ------------------------------------------------------------------ bounds
\* longest list / tuple of the normalizer's inputs
MaxLen == 2

\* ---------------------------------------------------------- Python values
PyNone == [t |-> "None"]
PyStr(s) == [t |-> "str", v |-> s]
PyInt(n) == [t |-> "int", v |-> n]
PyBool(b) == [t |-> "bool", v |-> b]
PyFloat(tenths) == [t |-> "float", v |-> tenths]
PyDecimal(s) == [t |-> "Decimal", v |-> s]
PyDate(y, m, d) == [t |-> "date", v |-> [year |-> y, month |-> m, day |-> d]]
PyEnum(u) == [t |-> "Enum", v |-> u]
PyList(q) == [t |-> "list", v |-> q]
PyTuple(q) == [t |-> "tuple", v |-> q]
PyDict(f) == [t |-> "dict", v |-> f]
PyDataclass(f) == [t |-> "dataclass", v |-> f]
PyObject(f) == [t |-> "object", v |-> f]
\* a value with no __dict__ that is none of the above (bytes, an extension type)
PyOpaque == [t |-> "opaque"]

\* the empty mapping
EmptyMap == [k \in {} |-> PyNone]

Digits == <<"0", "1", "2", "3", "4", "5", "6", "7", "8", "9">>

\* n as w decimal digits, zero padded (the %0wd of isoformat)
RECURSIVE ZeroPad(_, _)
ZeroPad(n, w) ==
  IF w = 0 THEN <<>> ELSE Append(ZeroPad(n \div 10, w - 1), Digits[(n % 10) + 1])

\* date.isoformat(): YYYY-MM-DD
isoformat(d) ==
  ZeroPad(d.year, 4) \o <<"-">> \o ZeroPad(d.month, 2) \o <<"-">> \o ZeroPad(d.day, 2)

\* bool(value) for the values the program tests
Truthy(x) ==
  CASE x.t = "None" -> FALSE
    [] x.t \in {"str", "list", "tuple"} -> Len(x.v) > 0
    [] x.t \in {"int", "float"} -> x.v # 0
    [] x.t = "bool" -> x.v
    [] x.t = "dict" -> DOMAIN x.v # {}
    [] OTHER -> TRUE

\* dict.get(key): None when the key is missing
Get(row, key) == IF key \in DOMAIN row.v THEN row.v[key] ELSE PyNone

\* --------------------------------------------------------------- to_python
\* dataclasses.asdict: records, lists, tuples and dicts are copied
\* recursively with nested dataclasses turned into dicts; anything else is
\* copied as it is
RECURSIVE asdict_inner(_)
asdict_inner(x) ==
  CASE x.t = "dataclass" -> PyDict([k \in DOMAIN x.v |-> asdict_inner(x.v[k])])
    [] x.t \in {"list", "tuple"} ->
         [t |-> x.t, v |-> [i \in 1..Len(x.v) |-> asdict_inner(x.v[i])]]
    [] x.t = "dict" -> PyDict([k \in DOMAIN x.v |-> asdict_inner(x.v[k])])
    [] OTHER -> x

\* k.startswith("_")
startswith_underscore(k) == Len(k) > 0 /\ SubSeq(k, 1, 1) = "_"

PublicNames(f) == {k \in DOMAIN f : ~startswith_underscore(k)}

RECURSIVE to_python(_)
to_python(value) ==
  CASE value.t = "None" -> PyNone
    [] value.t = "dataclass" ->
         LET d == asdict_inner(value).v
         IN  PyDict([k \in DOMAIN d |-> to_python(d[k])])
    [] value.t = "dict" -> PyDict([k \in DOMAIN value.v |-> to_python(value.v[k])])
    [] value.t \in {"list", "tuple"} ->
         PyList([i \in 1..Len(value.v) |-> to_python(value.v[i])])
    [] value.t = "date" -> PyStr(isoformat(value.v))
    [] value.t = "Decimal" -> PyStr(value.v)
    [] value.t = "Enum" -> value.v
    [] value.t = "object" ->
         PyDict([k \in PublicNames(value.v) |-> to_python(value.v[k])])
    [] OTHER -> value

\* ------------------------------------------------------------ str and float
\* the characters the model uses, in code point order
CodePoints ==
  <<" ", "-", ".", "0", "1", "2", "3", "4", "5", "6", "7", "8", "9",
    "A", "C", "L", "P", "S", "U", "a", "c", "l", "p", "s", "u">>

ord(c) == CHOOSE i \in 1..Len(CodePoints) : CodePoints[i] = c

\* a < b for two str: the first differing character decides, a proper prefix is
\* smaller
RECURSIVE str_lt(_, _)
str_lt(a, b) ==
  IF Len(b) = 0 THEN FALSE
  ELSE IF Len(a) = 0 THEN TRUE
  ELSE IF Head(a) = Head(b) THEN str_lt(Tail(a), Tail(b))
  ELSE ord(Head(a)) < ord(Head(b))

\* int(s) of a digit string
RECURSIVE parse_digits(_)
parse_digits(s) ==
  IF Len(s) = 0 THEN 0
  ELSE 10 * parse_digits(SubSeq(s, 1, Len(s) - 1))
       + (CHOOSE d \in 0..9 : Digits[d + 1] = s[Len(s)])

\* float(x) in tenths, for an int, a float and a decimal string with at most
\* one fractional digit
float(x) ==
  CASE x.t = "float" -> x.v
    [] x.t = "int" -> 10 * x.v
    [] x.t = "str" ->
         LET dots == {i \in 1..Len(x.v) : x.v[i] = "."}
         IN  IF dots = {} THEN 10 * parse_digits(x.v)
             ELSE LET p == CHOOSE i \in dots : TRUE
                  IN  10 * parse_digits(SubSeq(x.v, 1, p - 1))
                      + parse_digits(SubSeq(x.v, p + 1, Len(x.v)))

\* ------------------------------------------------------------ chain helpers
isinstance_dict(row) == row.t = "dict"

\* sorted that puts shorter strings first (C2 before C10)
RECURSIVE sorted_shorter_first(_)
sorted_shorter_first(S) ==
  IF S = {} THEN <<>>
  ELSE LET m == CHOOSE x \in S :
                  \A y \in S \ {x} :
                    \/ Len(x.v) < Len(y.v)
                    \/ Len(x.v) = Len(y.v) /\ str_lt(x.v, y.v)
       IN  <<m>> \o sorted_shorter_first(S \ {m})

\* sorted(set of str): ascending, by repeatedly taking the least element
RECURSIVE sorted(_)
sorted(S) ==
  IF S = {} THEN <<>>
  ELSE LET m == CHOOSE x \in S : \A y \in S \ {x} : str_lt(x.v, y.v)
       IN  <<m>> \o sorted(S \ {m})

\* the rows of a Python list as a TLA+ sequence
Rows(option_chain) == option_chain.v

extract_option_symbols(option_chain) ==
  LET rows == Rows(option_chain)
  IN  sorted(
        {Get(rows[i], "call_symbol") :
           i \in {j \in 1..Len(rows) :
                    isinstance_dict(rows[j]) /\ Truthy(Get(rows[j], "call_symbol"))}}
        \cup
        {Get(rows[i], "put_symbol") :
           i \in {j \in 1..Len(rows) :
                    isinstance_dict(rows[j]) /\ Truthy(Get(rows[j], "put_symbol"))}})

CALL == PyStr(<<"c", "a", "l", "l">>)
PUT == PyStr(<<"p", "u", "t">>)

Contract(row_strike, symbol, type) ==
  [strike_price |-> row_strike, symbol |-> symbol, type |-> type]

\* whether the loop of filter_chain_rows skips the row (its two continue)
row_skipped(row, strike) ==
  \/ ~isinstance_dict(row)
  \/ LET row_strike == Get(row, "strike_price")
     IN  /\ strike # PyNone
         /\ row_strike # PyNone
         /\ float(row_strike) # float(strike)

\* what one row that is not skipped adds to selected_rows
row_selected(row, right) ==
  LET row_strike == Get(row, "strike_price")
  IN  IF right = CALL
      THEN <<Contract(row_strike, Get(row, "call_symbol"), CALL)>>
      ELSE IF right = PUT
      THEN <<Contract(row_strike, Get(row, "put_symbol"), PUT)>>
      ELSE <<Contract(row_strike, Get(row, "call_symbol"), CALL),
             Contract(row_strike, Get(row, "put_symbol"), PUT)>>

RECURSIVE selected_rows_from(_, _, _, _)
selected_rows_from(rows, strike, right, i) ==
  IF i > Len(rows) THEN <<>>
  ELSE (IF row_skipped(rows[i], strike) THEN <<>> ELSE row_selected(rows[i], right))
       \o selected_rows_from(rows, strike, right, i + 1)

filter_chain_rows(option_chain, strike, right) ==
  SelectSeq(selected_rows_from(Rows(option_chain), strike, right, 1),
            LAMBDA r : Truthy(r.symbol))

\* ------------------------------------------------------------------ try_call
\* An exception raised by the vendor operation `name`; n tells two failures of
\* one operation apart.
ApiError(name, n) == [t |-> "error", type |-> "OpenApiException", method |-> name, n |-> n]

\* the AttributeError of try_call's last line
NoMethodError(method_names) ==
  [t |-> "error", type |-> "AttributeError", names |-> method_names]

\* last_error before any failure
NoError == PyNone

\* what invoking a candidate does: it returns a value or raises
Returns(v) == [ok |-> TRUE, value |-> v]
Raises(e) == [ok |-> FALSE, error |-> e]

\* what try_call does: it returns (name, value) or raises error; invoked lists
\* the positions in method_names of the candidates it invoked, in order
Returned(name, value, invoked) ==
  [raised |-> FALSE, name |-> name, value |-> value, invoked |-> invoked]
Raised(error, invoked) == [raised |-> TRUE, error |-> error, invoked |-> invoked]

\* getattr(ctx, name, None): ctx is the set of operation names the client has
getattr(ctx, name) == name \in ctx

\* try_call without its except clause: the first failure ends the call
RECURSIVE try_call_from_no_fallback(_, _, _, _, _, _)
try_call_from_no_fallback(ctx, method_names, outcome, i, last_error, invoked) ==
  IF i > Len(method_names)
  THEN Raised(NoMethodError(method_names), invoked)
  ELSE IF ~getattr(ctx, method_names[i])
  THEN try_call_from_no_fallback(ctx, method_names, outcome, i + 1, last_error, invoked)
  ELSE IF outcome[i].ok
  THEN Returned(method_names[i], outcome[i].value, Append(invoked, i))
  ELSE Raised(outcome[i].error, Append(invoked, i))

\* try_call keeping the first failure instead of the last
RECURSIVE try_call_from_first_error(_, _, _, _, _, _)
try_call_from_first_error(ctx, method_names, outcome, i, last_error, invoked) ==
  IF i > Len(method_names)
  THEN IF Truthy(last_error)
       THEN Raised(last_error, invoked)
       ELSE Raised(NoMethodError(method_names), invoked)
  ELSE IF ~getattr(ctx, method_names[i])
  THEN try_call_from_first_error(ctx, method_names, outcome, i + 1, last_error, invoked)
  ELSE IF outcome[i].ok
  THEN Returned(method_names[i], outcome[i].value, Append(invoked, i))
  ELSE try_call_from_first_error(
         ctx, method_names, outcome, i + 1,
         IF Truthy(last_error) THEN last_error ELSE outcome[i].error,
         Append(invoked, i))

\* The loop of try_call from candidate i on.  outcome[i] is what candidate i
\* does if it is invoked.
RECURSIVE try_call_from(_, _, _, _, _, _)
try_call_from(ctx, method_names, outcome, i, last_error, invoked) ==
  IF i > Len(method_names)
  THEN IF Truthy(last_error)
       THEN Raised(last_error, invoked)
       ELSE Raised(NoMethodError(method_names), invoked)
  ELSE IF ~getattr(ctx, method_names[i])
  THEN try_call_from(ctx, method_names, outcome, i + 1, last_error, invoked)
  ELSE IF outcome[i].ok
  THEN Returned(method_names[i], outcome[i].value, Append(invoked, i))
  ELSE try_call_from(ctx, method_names, outcome, i + 1, outcome[i].error,
                     Append(invoked, i))

try_call(ctx, method_names, outcome) ==
  try_call_from(ctx, method_names, outcome, 1, NoError, <<>>)

\* ------------------------------------------------------------- fetch_batched
\* items[i : i + size] (0-based, end exclusive, cut at the end of the list)
slice(items, i, j) ==
  SubSeq(items, i + 1, IF j < Len(items) THEN j ELSE Len(items))

\* chunked that yields full batches only: the shorter last batch is lost
RECURSIVE chunked_from_full_only(_, _, _)
chunked_from_full_only(items, size, i) ==
  IF i + size > Len(items) THEN <<>>
  ELSE <<slice(items, i, i + size)>> \o chunked_from_full_only(items, size, i + size)

\* chunked: one slice per i of range(0, len(items), size)
RECURSIVE chunked_from(_, _, _)
chunked_from(items, size, i) ==
  IF i >= Len(items) THEN <<>>
  ELSE <<slice(items, i, i + size)>> \o chunked_from(items, size, i + size)

chunked(items, size) == chunked_from(items, size, 0)

\* rows or []
or_empty(rows) == IF Truthy(rows) THEN rows.v ELSE <<>>

\* used_method or method
or_method(used_method, method) == IF Truthy(used_method) THEN used_method ELSE method

\* The loop of fetch_batched over the batches from k on.  oracle[k] is the
\* outcome function of the k-th try_call.  calls lists, per try_call made, the
\* batch sent and the candidates invoked.
RECURSIVE fetch_batched_from(_, _, _, _, _, _, _)
fetch_batched_from(ctx, batches, method_names, oracle, k, acc, calls) ==
  IF k > Len(batches)
  THEN [raised |-> FALSE,
        value |-> [method |-> acc.used_method,
                   count |-> Len(acc.all_rows),
                   rows |-> to_python(PyList(acc.all_rows))],
        calls |-> calls]
  ELSE LET r == try_call(ctx, method_names, oracle[k])
           made == Append(calls, [batch |-> batches[k], invoked |-> r.invoked])
       IN  IF r.raised
           THEN [raised |-> TRUE, error |-> r.error, calls |-> made]
           ELSE fetch_batched_from(
                  ctx, batches, method_names, oracle, k + 1,
                  [used_method |-> or_method(acc.used_method, PyStr(r.name)),
                   all_rows |-> acc.all_rows \o or_empty(r.value)],
                  made)

fetch_batched(ctx, option_symbols, batch_size, method_names, oracle) ==
  fetch_batched_from(ctx, chunked(option_symbols, batch_size), method_names, oracle,
                     1, [used_method |-> PyNone, all_rows |-> <<>>], <<>>)

\* ------------------------------------------------------------ serialization
\* whether json.dump accepts the value (it raises TypeError otherwise)
RECURSIVE json_serializable(_)
json_serializable(x) ==
  CASE x.t \in {"None", "str", "int", "bool", "float"} -> TRUE
    [] x.t \in {"list", "tuple"} -> \A i \in 1..Len(x.v) : json_serializable(x.v[i])
    [] x.t = "dict" -> \A k \in DOMAIN x.v : json_serializable(x.v[k])
    [] OTHER -> FALSE

\* ------------------------------------------------------------------- inputs
\* str.strip() for blanks
RECURSIVE lstrip(_)
lstrip(s) == IF Len(s) > 0 /\ Head(s) = " " THEN lstrip(Tail(s)) ELSE s

RECURSIVE rstrip(_)
rstrip(s) ==
  IF Len(s) > 0 /\ s[Len(s)] = " " THEN rstrip(SubSeq(s, 1, Len(s) - 1)) ELSE s

strip(s) == rstrip(lstrip(s))

upper_char(c) ==
  CASE c = "a" -> "A" [] c = "c" -> "C" [] c = "l" -> "L"
    [] c = "p" -> "P" [] c = "s" -> "S" [] c = "u" -> "U" [] OTHER -> c

upper(s) == [i \in 1..Len(s) |-> upper_char(s[i])]

APPL_US == <<"A", "P", "P", "L", ".", "U", "S">>
AAPL_US == <<"A", "A", "P", "L", ".", "U", "S">>

normalize_symbol(symbol) ==
  LET normalized == upper(strip(symbol))
  IN  IF normalized = APPL_US THEN AAPL_US ELSE normalized

\* date.fromisoformat accepts YYYY-MM-DD only
valid_isoformat(s) ==
  /\ Len(s) = 10
  /\ s[5] = "-" /\ s[8] = "-"
  /\ \A i \in {1, 2, 3, 4, 6, 7, 9, 10} : \E d \in 1..10 : Digits[d] = s[i]

fromisoformat(s) ==
  [year |-> parse_digits(SubSeq(s, 1, 4)),
   month |-> parse_digits(SubSeq(s, 6, 7)),
   day |-> parse_digits(SubSeq(s, 9, 10))]

\* Path.with_suffix
with_suffix(path, suffix) == [path EXCEPT !.suffix = suffix]

\* =================================================================== state
VARIABLES
  pc,             \* where main is
  args,           \* the parsed command line
  symbol, expiry, ctx, used_methods, expiry_dates, option_chain, option_symbols,
  option_quote, static_info, quote,
  depth_rows, trade_rows, broker_rows,
  depth_method, trade_method, broker_method,
  errors,
  n,              \* the position in option_symbols of contract_symbol
  result,
  files,          \* the paths opened for writing so far
  exit_error,     \* what ended main early: a SystemExit or a propagated exception
  api_calls,      \* the steps of main that invoked a vendor operation so far
  loop_calls,     \* the try_call made by the per-symbol loop so far
  failures,       \* vendor invocations that raised so far
  call_pc, call_args, call_ret   \* one call of a helper on its own

mainVars ==
  <<pc, args, symbol, expiry, ctx, used_methods, expiry_dates, option_chain,
    option_symbols, option_quote, static_info, quote, depth_rows, trade_rows,
    broker_rows, depth_method, trade_method, broker_method, errors, n, result,
    files, exit_error, api_calls, loop_calls, failures>>

callVars == <<call_pc, call_args, call_ret>>

vars == <<mainVars, callVars>>

\* ------------------------------------------------------ bounds of the run
\* largest --batch-size tried
MaxBatch == 2
\* vendor invocations that may raise in one run
MaxFailures == 2

\* ------------------------------------------------- candidate operation names
ExpiryNames == <<"option_chain_expiry_date_list", "option_chain_expiry_date">>
ChainNames == <<"option_chain_info_by_date", "option_chain_by_date">>
OptionQuoteNames == <<"option_quote", "realtime_quote_of_option">>
StaticInfoNames == <<"static_info", "security_static_info">>
QuoteNames == <<"quote", "realtime_quote", "realtime_quotes_of_securities">>
DepthNames == <<"depth", "security_depth">>
TradesNames == <<"trades", "security_trades">>
BrokersNames == <<"brokers", "security_brokers">>

Range(q) == {q[i] : i \in 1..Len(q)}

RequiredApis == <<ExpiryNames, ChainNames, OptionQuoteNames, StaticInfoNames, QuoteNames>>
PerSymbolApis == <<DepthNames, TradesNames, BrokersNames>>
AllApis == RequiredApis \o PerSymbolApis

AllNames == UNION {Range(AllApis[a]) : a \in 1..Len(AllApis)}

\* The clients the run may meet: an SDK with every name, one with only the
\* first or only the last name of each operation, and each of these short of
\* one whole operation.
SdkVersions ==
  LET full == AllNames
      first == {AllApis[a][1] : a \in 1..Len(AllApis)}
      last == {AllApis[a][Len(AllApis[a])] : a \in 1..Len(AllApis)}
  IN  {full, first, last}
      \cup {full \ Range(AllApis[a]) : a \in 1..Len(AllApis)}

\* ------------------------------------------------------------- vendor data
Str2025_01_17 == <<"2", "0", "2", "5", "-", "0", "1", "-", "1", "7">>
\* the command lines tried, but for --batch-size: --symbol, --expiry,
\* --strike, --right
CommandLines ==
  {[symbol |-> <<"A", "P", "P", "L", ".", "U", "S">>, expiry |-> Str2025_01_17,
    strike |-> PyNone, right |-> PyNone],
   [symbol |-> <<" ", "a", "a", "p", "l", ".", "u", "s">>, expiry |-> Str2025_01_17,
    strike |-> PyFloat(1050), right |-> CALL],
   [symbol |-> <<"A", "A", "P", "L", ".", "U", "S">>,
    expiry |-> <<"2", "0", "2", "5", "-", "1", "-", "1", "7">>,
    strike |-> PyNone, right |-> PUT]}
DefaultOutput == [stem |-> "option_data", suffix |-> ".json"]

ExpiryLists ==
  {PyList(<<PyDate(2025, 1, 10), PyDate(2025, 1, 24)>>),
   PyList(<<PyDate(2025, 1, 17), PyDate(2025, 1, 24)>>)}

\* a chain row as the vendor returns it: an object with public and private
\* attributes
VendorRow(strike, call, put, extra) ==
  PyObject([strike_price |-> strike, call_symbol |-> call, put_symbol |-> put,
            standard |-> extra, _raw |-> PyOpaque])

SymC1 == PyStr(<<"C", "1">>)
SymC10 == PyStr(<<"C", "1", "0">>)
SymC2 == PyStr(<<"C", "2">>)
SymP1 == PyStr(<<"P", "1">>)
EmptyStr == PyStr(<<>>)

Row105 == VendorRow(PyDecimal(<<"1", "0", "5", ".", "0">>), SymC2, SymP1, PyBool(TRUE))
Row100 == VendorRow(PyDecimal(<<"1", "0", "0">>), SymC10, EmptyStr, PyBool(TRUE))
RowNoSymbol == VendorRow(PyDecimal(<<"1", "1", "0">>), EmptyStr, PyNone, PyBool(TRUE))
RowOpaque == VendorRow(PyDecimal(<<"1", "0", "0">>), SymC1, SymC2, PyOpaque)

\* the chains the vendor may return: none or one without symbols, chains of
\* one to three option symbols, and one with a field to_python cannot convert
VendorChains ==
  {PyList(<<>>), PyList(<<RowNoSymbol>>), PyList(<<Row100>>), PyList(<<Row105>>),
   PyList(<<Row105, RowNoSymbol, Row100>>), PyList(<<RowOpaque>>)}

\* the rows a batched operation returns for a batch: one per symbol
BatchRows(batch) ==
  PyList([i \in 1..Len(batch) |->
            PyObject([symbol |-> batch[i], last_done |-> PyDecimal(<<"1", ".", "5">>)])])

\* what a per-symbol operation returns
SymbolData == PyObject([asks |-> PyList(<<>>), bids |-> PyList(<<>>)])

\* -------------------------------------------------------- the vendor's part
\* the outcome functions of one try_call: any set of candidates raises, the
\* others return value
Outcomes(method_names, value) ==
  {[i \in 1..Len(method_names) |->
      IF i \in F THEN Raises(ApiError(method_names[i], 0)) ELSE Returns(value)] :
   F \in SUBSET (1..Len(method_names))}

\* the invocations of one try_call that raised
Failed(r) == Len(r.invoked) - (IF r.raised THEN 0 ELSE 1)

RECURSIVE FailedIn(_)
FailedIn(calls) ==
  IF calls = <<>> THEN 0
  ELSE Len(Head(calls).invoked) + FailedIn(Tail(calls))

\* the invocations of one fetch_batched that raised
FailedFetch(f) == FailedIn(f.calls) - (Len(f.calls) - (IF f.raised THEN 1 ELSE 0))

\* every way one fetch_batched of the run can go
Fetches(method_names) ==
  LET batches == chunked(option_symbols, args.batch_size)
      places == (1..Len(batches)) \X (1..Len(method_names))
  IN  {fetch_batched(
         ctx, option_symbols, args.batch_size, method_names,
         [k \in 1..Len(batches) |->
            [i \in 1..Len(method_names) |->
               IF <<k, i>> \in F
               THEN Raises(ApiError(method_names[i], k))
               ELSE Returns(BatchRows(batches[k]))]]) :
       F \in {G \in SUBSET places : Cardinality(G) <= MaxFailures - failures}}

\* ==================================================================== main
\* SystemExit(message): which message, and the list the message shows
SystemExit(message, shown) ==
  [t |-> "error", type |-> "SystemExit", message |-> message, shown |-> shown]
ValueError == [t |-> "error", type |-> "ValueError"]
TypeError == [t |-> "error", type |-> "TypeError"]
ConfigError == [t |-> "error", type |-> "OpenApiException", method |-> "Config.from_env", n |-> 0]

\* str(exc)
str_exc(e) == [t |-> "str", message_of |-> e]

InitMain ==
  /\ pc = "parse_args"
  /\ args = PyNone /\ symbol = PyNone /\ expiry = PyNone /\ ctx = {}
  /\ used_methods = [k \in {} |-> ""]
  /\ expiry_dates = {} /\ option_chain = PyNone /\ option_symbols = <<>>
  /\ option_quote = PyNone /\ static_info = PyNone /\ quote = PyNone
  /\ depth_rows = <<>> /\ trade_rows = <<>> /\ broker_rows = <<>>
  /\ depth_method = PyNone /\ trade_method = PyNone /\ broker_method = PyNone
  /\ errors = <<>> /\ n = 0 /\ result = PyNone /\ files = {}
  /\ exit_error = PyNone /\ api_calls = {} /\ loop_calls = {} /\ failures = 0

\* main ends with e raised; nothing after the raise runs
Exit(e) == pc' = "exit" /\ exit_error' = e

\* parse_args with --output declared as a file to open for writing: argparse
\* creates the file while it parses
ParseArgs_opens_output ==
  /\ pc = "parse_args"
  /\ \E cl \in CommandLines, bs \in 0..MaxBatch :
       /\ args' = [symbol |-> cl.symbol, expiry |-> cl.expiry, output |-> DefaultOutput,
                   batch_size |-> bs, strike |-> cl.strike, right |-> cl.right]
       /\ IF bs <= 0
          THEN Exit(SystemExit("batch-size", <<>>))
          ELSE pc' = "connect" /\ UNCHANGED exit_error
  /\ files' = {DefaultOutput}
  /\ UNCHANGED <<symbol, expiry, ctx, used_methods, expiry_dates, option_chain,
                 option_symbols, option_quote, static_info, quote, depth_rows,
                 trade_rows, broker_rows, depth_method, trade_method, broker_method,
                 errors, n, result, api_calls, loop_calls, failures, callVars>>

\* parse_args, lines 20-54
ParseArgs ==
  /\ pc = "parse_args"
  /\ \E cl \in CommandLines, bs \in 0..MaxBatch :
       /\ args' = [symbol |-> cl.symbol, expiry |-> cl.expiry, output |-> DefaultOutput,
                   batch_size |-> bs, strike |-> cl.strike, right |-> cl.right]
       /\ IF bs <= 0
          THEN Exit(SystemExit("batch-size", <<>>))
          ELSE pc' = "connect" /\ UNCHANGED exit_error
  /\ UNCHANGED <<symbol, expiry, ctx, used_methods, expiry_dates, option_chain,
                 option_symbols, option_quote, static_info, quote, depth_rows,
                 trade_rows, broker_rows, depth_method, trade_method, broker_method,
                 errors, n, result, files, api_calls, loop_calls, failures, callVars>>

\* main, lines 268-276: the symbol, the expiry date and the client
Connect ==
  /\ pc = "connect"
  /\ symbol' = normalize_symbol(args.symbol)
  /\ IF ~valid_isoformat(args.expiry)
     THEN Exit(ValueError) /\ UNCHANGED <<expiry, ctx>>
     ELSE /\ expiry' = fromisoformat(args.expiry)
          /\ \/ Exit(ConfigError) /\ UNCHANGED ctx
             \/ \E sdk \in SdkVersions :
                  ctx' = sdk /\ pc' = "expiry_dates" /\ UNCHANGED exit_error
  /\ UNCHANGED <<args, used_methods, expiry_dates, option_chain,
                 option_symbols, option_quote, static_info, quote, depth_rows,
                 trade_rows, broker_rows, depth_method, trade_method, broker_method,
                 errors, n, result, files, api_calls, loop_calls, failures, callVars>>

\* main, lines 278-290: the expiry dates and the check of the requested one
ExpiryDates ==
  /\ pc = "expiry_dates"
  /\ \E expiry_list \in ExpiryLists :
     \E r \in {try_call(ctx, ExpiryNames, o) : o \in Outcomes(ExpiryNames, expiry_list)} :
       /\ failures + Failed(r) <= MaxFailures
       /\ failures' = failures + Failed(r)
       /\ api_calls' = IF r.invoked # <<>> THEN api_calls \cup {"expiry_dates"} ELSE api_calls
       /\ IF r.raised
          THEN Exit(r.error) /\ UNCHANGED <<used_methods, expiry_dates>>
          ELSE /\ used_methods' = ("expiry_dates" :> r.name) @@ used_methods
               /\ expiry_dates' = {to_python(r.value.v[i]) : i \in 1..Len(r.value.v)}
               /\ IF PyStr(args.expiry) \notin expiry_dates'
                  THEN Exit(SystemExit("expiry", sorted(expiry_dates')))
                  ELSE pc' = "option_chain" /\ UNCHANGED exit_error
  /\ UNCHANGED <<args, symbol, expiry, ctx, option_chain,
                 option_symbols, option_quote, static_info, quote, depth_rows,
                 trade_rows, broker_rows, depth_method, trade_method, broker_method,
                 errors, n, result, files, loop_calls, callVars>>

\* main, lines 292-303: the chain and its option symbols
OptionChain ==
  /\ pc = "option_chain"
  /\ \E chain_rows \in VendorChains :
     \E r \in {try_call(ctx, ChainNames, o) : o \in Outcomes(ChainNames, chain_rows)} :
       /\ failures + Failed(r) <= MaxFailures
       /\ failures' = failures + Failed(r)
       /\ api_calls' = IF r.invoked # <<>> THEN api_calls \cup {"option_chain"} ELSE api_calls
       /\ IF r.raised
          THEN Exit(r.error) /\ UNCHANGED <<used_methods, option_chain, option_symbols>>
          ELSE /\ used_methods' = ("option_chain" :> r.name) @@ used_methods
               /\ option_chain' = to_python(r.value)
               /\ option_symbols' = extract_option_symbols(option_chain')
               /\ IF option_symbols' = <<>>
                  THEN Exit(SystemExit("no option symbols", <<>>))
                  ELSE pc' = "option_quote" /\ UNCHANGED exit_error
  /\ UNCHANGED <<args, symbol, expiry, ctx, expiry_dates,
                 option_quote, static_info, quote, depth_rows,
                 trade_rows, broker_rows, depth_method, trade_method, broker_method,
                 errors, n, result, files, loop_calls, callVars>>

\* what the three batched steps share: the fetch f, its bookkeeping, and where
\* main goes next
Batched(api, f, next) ==
  /\ failures + FailedFetch(f) <= MaxFailures
  /\ failures' = failures + FailedFetch(f)
  /\ api_calls' = IF \E k \in 1..Len(f.calls) : f.calls[k].invoked # <<>>
                  THEN api_calls \cup {api} ELSE api_calls
  /\ IF f.raised
     THEN Exit(f.error) /\ UNCHANGED used_methods
     ELSE /\ used_methods' = IF Truthy(f.value.method)
                             THEN (api :> f.value.method.v) @@ used_methods
                             ELSE used_methods
          /\ pc' = next /\ UNCHANGED exit_error

\* main, lines 305-313
OptionQuote ==
  /\ pc = "option_quote"
  /\ \E f \in Fetches(OptionQuoteNames) :
       /\ Batched("option_quote", f, "static_info")
       /\ option_quote' = IF f.raised THEN option_quote ELSE f.value
  /\ UNCHANGED <<args, symbol, expiry, ctx, expiry_dates, option_chain,
                 option_symbols, static_info, quote, depth_rows,
                 trade_rows, broker_rows, depth_method, trade_method, broker_method,
                 errors, n, result, files, loop_calls, callVars>>

\* main, lines 315-323
StaticInfo ==
  /\ pc = "static_info"
  /\ \E f \in Fetches(StaticInfoNames) :
       /\ Batched("static_info", f, "quote")
       /\ static_info' = IF f.raised THEN static_info ELSE f.value
  /\ UNCHANGED <<args, symbol, expiry, ctx, expiry_dates, option_chain,
                 option_symbols, option_quote, quote, depth_rows,
                 trade_rows, broker_rows, depth_method, trade_method, broker_method,
                 errors, n, result, files, loop_calls, callVars>>

\* main, lines 325-340: the last batched fetch, then the loop starts at the
\* first option symbol
Quote ==
  /\ pc = "quote"
  /\ \E f \in Fetches(QuoteNames) :
       /\ Batched("quote", f, "depth")
       /\ quote' = IF f.raised THEN quote ELSE f.value
       /\ n' = IF f.raised THEN n ELSE 1
  /\ UNCHANGED <<args, symbol, expiry, ctx, expiry_dates, option_chain,
                 option_symbols, option_quote, static_info, depth_rows,
                 trade_rows, broker_rows, depth_method, trade_method, broker_method,
                 errors, result, files, loop_calls, callVars>>

\* the candidates of a try block without the remembered name
tried_names_all(method_names, method) == method_names

\* the candidates a try block passes to try_call: all of them until one has
\* been remembered
tried_names(method_names, method) ==
  IF method = PyNone THEN method_names ELSE <<method.v>>

\* every way the try_call of a try block can go
Attempts(tried) == {try_call(ctx, tried, o) : o \in Outcomes(tried, SymbolData)}

\* a try block whose except clause records nothing
PerSymbol_unrecorded(api, method, r, tried) ==
  /\ failures + Failed(r) <= MaxFailures
  /\ failures' = failures + Failed(r)
  /\ api_calls' = IF r.invoked # <<>> THEN api_calls \cup {api} ELSE api_calls
  /\ loop_calls' = loop_calls \cup
                   {[api |-> api, n |-> n, tried |-> tried, raised |-> r.raised,
                     names |-> [i \in 1..Len(r.invoked) |-> tried[r.invoked[i]]]]}
  /\ errors' = errors

\* One try block of the loop, lines 341-348 (350-357, 359-366): the try_call r
\* for contract_symbol with the full list or the remembered name, and what it
\* leaves in the method, the rows and the errors of its category.
PerSymbol(api, method, r, tried) ==
  /\ failures + Failed(r) <= MaxFailures
  /\ failures' = failures + Failed(r)
  /\ api_calls' = IF r.invoked # <<>> THEN api_calls \cup {api} ELSE api_calls
  /\ loop_calls' = loop_calls \cup
                   {[api |-> api, n |-> n, tried |-> tried, raised |-> r.raised,
                     names |-> [i \in 1..Len(r.invoked) |-> tried[r.invoked[i]]]]}
  /\ errors' = IF r.raised
               THEN Append(errors, [symbol |-> option_symbols[n], api |-> api,
                                    error |-> str_exc(r.error)])
               ELSE errors

\* a try block that appends its row whether or not try_call raised
rows_after_always(rows, r) ==
  Append(rows, [symbol |-> option_symbols[n],
                data |-> IF r.raised THEN PyNone ELSE to_python(r.value)])

\* the method and the rows of the category after the try block
method_after(method, r) ==
  IF ~r.raised /\ method = PyNone THEN PyStr(r.name) ELSE method

rows_after(rows, r) ==
  IF r.raised THEN rows
  ELSE Append(rows, [symbol |-> option_symbols[n], data |-> to_python(r.value)])

Depth ==
  /\ pc = "depth"
  /\ \E r \in Attempts(tried_names(DepthNames, depth_method)) :
       /\ PerSymbol("depth", depth_method, r, tried_names(DepthNames, depth_method))
       /\ depth_method' = method_after(depth_method, r)
       /\ depth_rows' = rows_after(depth_rows, r)
  /\ pc' = "trades"
  /\ UNCHANGED <<args, symbol, expiry, ctx, used_methods, expiry_dates, option_chain,
                 option_symbols, option_quote, static_info, quote,
                 trade_rows, broker_rows, trade_method, broker_method,
                 n, result, files, exit_error, callVars>>

Trades ==
  /\ pc = "trades"
  /\ \E r \in Attempts(tried_names(TradesNames, trade_method)) :
       /\ PerSymbol("trades", trade_method, r, tried_names(TradesNames, trade_method))
       /\ trade_method' = method_after(trade_method, r)
       /\ trade_rows' = rows_after(trade_rows, r)
  /\ pc' = "brokers"
  /\ UNCHANGED <<args, symbol, expiry, ctx, used_methods, expiry_dates, option_chain,
                 option_symbols, option_quote, static_info, quote,
                 depth_rows, broker_rows, depth_method, broker_method,
                 n, result, files, exit_error, callVars>>

\* for contract_symbol in option_symbols: whether an item follows the k-th
has_next(items, k) == k < Len(items)

\* the last try block; then the next symbol, or the end of the loop
Brokers ==
  /\ pc = "brokers"
  /\ \E r \in Attempts(tried_names(BrokersNames, broker_method)) :
       /\ PerSymbol("brokers", broker_method, r, tried_names(BrokersNames, broker_method))
       /\ broker_method' = method_after(broker_method, r)
       /\ broker_rows' = rows_after(broker_rows, r)
  /\ IF has_next(option_symbols, n)
     THEN n' = n + 1 /\ pc' = "depth"
     ELSE n' = n /\ pc' = "assemble"
  /\ UNCHANGED <<args, symbol, expiry, ctx, used_methods, expiry_dates, option_chain,
                 option_symbols, option_quote, static_info, quote,
                 depth_rows, trade_rows, depth_method, trade_method,
                 result, files, exit_error, callVars>>

\* method or ""
or_blank(method) == IF Truthy(method) THEN method.v ELSE ""

\* main, lines 368-417: the methods of the loop, the selected contracts and
\* the result document
Assemble ==
  /\ pc = "assemble"
  /\ used_methods' = ("depth" :> or_blank(depth_method))
                     @@ ("trades" :> or_blank(trade_method))
                     @@ ("brokers" :> or_blank(broker_method))
                     @@ used_methods
  /\ LET selected_contracts == filter_chain_rows(option_chain, args.strike, args.right)
     IN  result' =
           [requested |-> [symbol |-> symbol, input_symbol |-> args.symbol,
                           expiry |-> args.expiry, batch_size |-> args.batch_size,
                           strike |-> args.strike, right |-> args.right],
            sdk_methods |-> used_methods',
            summary |-> [option_count |-> Len(option_symbols),
                         chain_rows |-> Len(Rows(option_chain)),
                         selected_contracts |-> Len(selected_contracts),
                         errors |-> Len(errors)],
            underlying |-> [symbol |-> symbol,
                            available_expiry_dates |-> sorted(expiry_dates)],
            selected_contracts |-> selected_contracts,
            option_chain |-> option_chain,
            option_symbols |-> option_symbols,
            option_quote |-> option_quote,
            quote |-> quote,
            static_info |-> static_info,
            depth |-> [method |-> depth_method, count |-> Len(depth_rows),
                       rows |-> depth_rows],
            trades |-> [method |-> trade_method, count |-> Len(trade_rows),
                        rows |-> trade_rows],
            brokers |-> [method |-> broker_method, count |-> Len(broker_rows),
                         rows |-> broker_rows],
            errors |-> errors]
  /\ pc' = "write_json"
  /\ UNCHANGED <<args, symbol, expiry, ctx, expiry_dates, option_chain,
                 option_symbols, option_quote, static_info, quote, depth_rows,
                 trade_rows, broker_rows, depth_method, trade_method, broker_method,
                 errors, n, files, exit_error, api_calls, loop_calls, failures, callVars>>

\* whether json.dump can write the result: the vendor's data in it must have
\* been normalized to JSON values
result_serializable(res) ==
  /\ json_serializable(res.option_chain)
  /\ json_serializable(res.option_quote.rows)
  /\ json_serializable(res.quote.rows)
  /\ json_serializable(res.static_info.rows)
  /\ \A cat \in {res.depth, res.trades, res.brokers} :
       \A i \in 1..Len(cat.rows) : json_serializable(cat.rows[i].data)

\* main, lines 419-420: open(args.output, "w") creates the file, json.dump
\* fills it or raises
WriteJson ==
  /\ pc = "write_json"
  /\ files' = files \cup {args.output}
  /\ IF result_serializable(result)
     THEN pc' = "write_markdown" /\ UNCHANGED exit_error
     ELSE Exit(TypeError)
  /\ UNCHANGED <<args, symbol, expiry, ctx, used_methods, expiry_dates, option_chain,
                 option_symbols, option_quote, static_info, quote, depth_rows,
                 trade_rows, broker_rows, depth_method, trade_method, broker_method,
                 errors, n, result, api_calls, loop_calls, failures, callVars>>

\* main, lines 422-430
WriteMarkdown ==
  /\ pc = "write_markdown"
  /\ files' = files \cup {with_suffix(args.output, ".md")}
  /\ pc' = "done"
  /\ UNCHANGED <<args, symbol, expiry, ctx, used_methods, expiry_dates, option_chain,
                 option_symbols, option_quote, static_info, quote, depth_rows,
                 trade_rows, broker_rows, depth_method, trade_method, broker_method,
                 errors, n, result, exit_error, api_calls, loop_calls, failures, callVars>>

InitCallIdle == call_pc = "idle" /\ call_args = PyNone /\ call_ret = PyNone

Init == InitMain /\ InitCallIdle

Next ==
  \/ ParseArgs \/ Connect \/ ExpiryDates \/ OptionChain
  \/ OptionQuote \/ StaticInfo \/ Quote
  \/ Depth \/ Trades \/ Brokers
  \/ Assemble \/ WriteJson \/ WriteMarkdown

Spec == Init /\ [][Next]_vars

\* ======================================================= the helpers alone
BoundedSeq(S, k) == UNION {[1..m -> S] : m \in 0..k}

\* ------------------------------------------------------------ try_call alone
\* longest candidate list
MaxCandidates == 3

TryNames == {"A", "B", "C"}

\* what a candidate may do: return one of two values, or raise one of two
\* errors
TryOutcomes ==
  {Returns(PyInt(1)), Returns(PyNone), Raises(ApiError("A", 1)), Raises(ApiError("B", 2))}

InitTryCall ==
  /\ InitMain
  /\ call_pc = "try_call"
  /\ call_ret = PyNone
  /\ \E c \in SUBSET TryNames, names \in BoundedSeq(TryNames, MaxCandidates) :
     \E o \in [1..Len(names) -> TryOutcomes] :
       call_args = [ctx |-> c, method_names |-> names, outcome |-> o]

TryCall ==
  /\ call_pc = "try_call"
  /\ call_ret' = try_call(call_args.ctx, call_args.method_names, call_args.outcome)
  /\ call_pc' = "return"
  /\ UNCHANGED <<call_args, mainVars>>

SpecTryCall == InitTryCall /\ [][TryCall]_vars

\* ------------------------------------------------------- fetch_batched alone
\* most ids
MaxIds == 4

FetchNames == <<"A", "B">>

\* the first k ids: "01", "02", ...
Ids(k) == [i \in 1..k |-> PyStr(ZeroPad(i, 2))]

QuoteRow(id) == PyObject([symbol |-> id, last_done |-> PyDecimal(<<"1", ".", "5">>)])

\* what the two candidates may do with one batch
BatchOutcomes(batch) ==
  LET full == PyList([i \in 1..Len(batch) |-> QuoteRow(batch[i])])
  IN  {<<Returns(full), Raises(ApiError("B", 2))>>,
       <<Returns(PyNone), Returns(full)>>,
       <<Raises(ApiError("A", 1)), Returns(PyList(<<QuoteRow(batch[1]), PyNone>>))>>,
       <<Raises(ApiError("A", 1)), Raises(ApiError("B", 2))>>}

\* the oracles of a fetch: one outcome function per batch
RECURSIVE Oracles(_)
Oracles(batches) ==
  IF batches = <<>> THEN {<<>>}
  ELSE {<<o>> \o rest : o \in BatchOutcomes(Head(batches)), rest \in Oracles(Tail(batches))}

InitFetch ==
  /\ InitMain
  /\ call_pc = "fetch_batched"
  /\ call_ret = PyNone
  /\ \E c \in SUBSET Range(FetchNames), k \in 0..MaxIds, size \in 1..MaxBatch :
     \E oracle \in Oracles(chunked(Ids(k), size)) :
       call_args = [ctx |-> c, option_symbols |-> Ids(k), batch_size |-> size,
                    method_names |-> FetchNames, oracle |-> oracle]

FetchBatched ==
  /\ call_pc = "fetch_batched"
  /\ call_ret' = fetch_batched(call_args.ctx, call_args.option_symbols,
                               call_args.batch_size, call_args.method_names,
                               call_args.oracle)
  /\ call_pc' = "return"
  /\ UNCHANGED <<call_args, mainVars>>

SpecFetch == InitFetch /\ [][FetchBatched]_vars

\* ------------------------------------------------- the chain helpers alone
\* most chain rows
MaxRows == 2

\* the normalized chain rows: a strike, a call and a put symbol, each possibly
\* missing or empty; and a row that is no dict
ChainRows ==
  {PyDict([strike_price |-> k, call_symbol |-> c, put_symbol |-> p]) :
     k \in {PyNone, PyStr(<<"1", "0", "0">>), PyStr(<<"1", "0", "5", ".", "0">>)},
     c \in {EmptyStr, SymC2, SymC10},
     p \in {PyNone, SymC1, SymC2}}
  \cup {PyOpaque}

InitChain ==
  /\ InitMain
  /\ call_pc = "chain"
  /\ call_ret = PyNone
  /\ \E rows \in BoundedSeq(ChainRows, MaxRows) :
       call_args = [option_chain |-> PyList(rows), strike |-> PyNone, right |-> PyNone]

ExtractOptionSymbols ==
  /\ call_pc = "chain"
  /\ call_ret' = extract_option_symbols(call_args.option_chain)
  /\ call_pc' = "extract_option_symbols"
  /\ UNCHANGED <<call_args, mainVars>>

FilterChainRows ==
  /\ call_pc = "chain"
  /\ \E strike \in {PyNone, PyFloat(1050), PyFloat(1000)}, right \in {PyNone, CALL, PUT} :
       /\ call_args' = [call_args EXCEPT !.strike = strike, !.right = right]
       /\ call_ret' = filter_chain_rows(call_args.option_chain, strike, right)
  /\ call_pc' = "filter_chain_rows"
  /\ UNCHANGED mainVars

SpecChain == InitChain /\ [][ExtractOptionSymbols \/ FilterChainRows]_vars

\* ----------------------------------------------------------- to_python alone
NormAtoms ==
  {PyNone, PyStr(<<"C", "1">>), PyInt(1), PyBool(TRUE), PyFloat(15),
   PyDecimal(<<"1", ".", "5">>), PyDate(2025, 1, 17), PyOpaque}

\* mappings over some of the names a, b and _c
Mappings(S) == UNION {[D -> S] : D \in SUBSET {"a", "_c"}}

Wrapped(S) ==
  {PyEnum(x) : x \in S}
  \cup {PyList(q) : q \in BoundedSeq(S, MaxLen)}
  \cup {PyTuple(<<x>>) : x \in S}
  \cup {PyDict(f) : f \in Mappings(S)}
  \cup {PyDataclass(f) : f \in Mappings(S)}
  \cup {PyObject(f) : f \in Mappings(S)}

NormValues1 == NormAtoms \cup Wrapped(NormAtoms)

\* the inputs: atoms, containers of atoms, and containers of one such container
NormValues ==
  NormValues1
  \cup {PyEnum(x) : x \in NormValues1}
  \cup {PyList(<<x>>) : x \in NormValues1}
  \cup {PyDict([k \in {"a"} |-> x]) : x \in NormValues1}
  \cup {PyDataclass([k \in {"a"} |-> x]) : x \in NormValues1}
  \cup {PyObject([k \in {"a"} |-> x]) : x \in NormValues1}

InitNorm ==
  /\ InitMain
  /\ call_pc = "to_python"
  /\ call_ret = PyNone
  /\ call_args \in NormValues

ToPython ==
  /\ call_pc = "to_python"
  /\ call_ret' = to_python(call_args)
  /\ call_pc' = "return"
  /\ UNCHANGED <<call_args, mainVars>>

SpecNorm == InitNorm /\ [][ToPython]_vars

\* ================================================================ properties
\* the elements of a set of numbers in ascending order
RECURSIVE Ascending(_)
Ascending(S) ==
  IF S = {} THEN <<>>
  ELSE LET m == CHOOSE x \in S : \A y \in S : x <= y
       IN  <<m>> \o Ascending(S \ {m})

Least(S) == CHOOSE x \in S : \A y \in S : x <= y
Greatest(S) == CHOOSE x \in S : \A y \in S : x >= y

\* the positions of the candidates the client has, and of those among them
\* that return
Exposed(a) == {i \in 1..Len(a.method_names) : a.method_names[i] \in a.ctx}
Succeeding(a) == {i \in Exposed(a) : a.outcome[i].ok}

\* C1: try_call tries the candidates in list order, skips (never invokes) the
\* ones the client lacks, and returns the name and the result of the first one
\* the client has that raises nothing; no later candidate is invoked.
C1_FirstSuccessInOrder ==
  (call_pc = "return" /\ Succeeding(call_args) # {}) =>
    LET first == Least(Succeeding(call_args))
    IN  /\ ~call_ret.raised
        /\ call_ret.name = call_args.method_names[first]
        /\ call_ret.value = call_args.outcome[first].value
        /\ call_ret.invoked = Ascending({i \in Exposed(call_args) : i <= first})

\* C1 at work: the first candidate is missing, the second raised, the third
\* returned
C1_Witness ==
  /\ call_pc = "return"
  /\ Len(call_args.method_names) = 3
  /\ Exposed(call_args) = {2, 3}
  /\ Succeeding(call_args) = {3}
  /\ call_ret.invoked = <<2, 3>>

\* C2: when no candidate succeeds try_call never returns: it raises the error
\* of the last candidate it invoked, or, when the client has none of the
\* candidates, an AttributeError that is no candidate's error.
C2_LastFailureRaised ==
  (call_pc = "return" /\ Succeeding(call_args) = {}) =>
    /\ call_ret.raised
    /\ call_ret.invoked = Ascending(Exposed(call_args))
    /\ Exposed(call_args) # {} =>
         call_ret.error = call_args.outcome[Greatest(Exposed(call_args))].error
    /\ Exposed(call_args) = {} =>
         /\ call_ret.error.type = "AttributeError"
         /\ \A i \in 1..Len(call_args.method_names) :
              ~call_args.outcome[i].ok => call_ret.error # call_args.outcome[i].error

\* C2 at work: two candidates raised different errors and the second one's
\* error came out
C2_Witness ==
  /\ call_pc = "return"
  /\ call_ret.raised
  /\ Len(call_ret.invoked) = 2
  /\ call_args.outcome[call_ret.invoked[1]].error # call_args.outcome[call_ret.invoked[2]].error
  /\ call_ret.error = call_args.outcome[call_ret.invoked[2]].error

RECURSIVE Concat(_)
Concat(qs) == IF qs = <<>> THEN <<>> ELSE Head(qs) \o Concat(Tail(qs))

\* the rows the k-th try_call of the fetch returned ([] for None)
ReturnedRows(a, k) ==
  LET v == try_call(a.ctx, a.method_names, a.oracle[k]).value
  IN  IF v.t = "list" THEN v.v ELSE <<>>

\* C3: when every batch call succeeds, fetch_batched of N ids with batch size
\* B makes exactly ceil(N/B) try_call, the k-th with ids (k-1)B+1 .. min(kB, N);
\* the batches put together are the ids; count is the sum of the rows
\* returned per batch and the rows are those rows in batch order, normalized;
\* for N = 0 there is no call, count = 0 and method = None.
C3_BatchedChunks ==
  (call_pc = "return" /\ ~call_ret.raised) =>
    LET a == call_args
        N == Len(a.option_symbols)
        B == a.batch_size
        calls == call_ret.calls
        K == (N + B - 1) \div B
        returned == [k \in 1..K |-> ReturnedRows(a, k)]
    IN  /\ Len(calls) = K
        /\ \A k \in 1..K :
             /\ Len(calls[k].batch) \in 1..B
             /\ calls[k].batch =
                  SubSeq(a.option_symbols, (k - 1) * B + 1, IF k * B < N THEN k * B ELSE N)
        /\ Concat([k \in 1..K |-> calls[k].batch]) = a.option_symbols
        /\ call_ret.value.count = Len(Concat(returned))
        /\ call_ret.value.rows = to_python(PyList(Concat(returned)))
        /\ N = 0 =>
             calls = <<>> /\ call_ret.value.count = 0 /\ call_ret.value.method = PyNone

\* C3 at work: three ids in batches of two, both calls served, rows returned
C3_Witness ==
  /\ call_pc = "return"
  /\ ~call_ret.raised
  /\ Len(call_args.option_symbols) = 3
  /\ call_args.batch_size = 2
  /\ Len(call_ret.calls) = 2
  /\ Len(call_ret.calls[2].batch) = 1
  /\ call_ret.value.count = 3

\* a comes before b in lexicographic order of code points: at the first
\* position where they differ a has the smaller character, or a ends there
LexBefore(a, b) ==
  \E k \in 1..Len(b) :
    /\ k <= Len(a) + 1
    /\ \A j \in 1..(k - 1) : a[j] = b[j]
    /\ k = Len(a) + 1 \/ ord(a[k]) < ord(b[k])

Reorderings(m) == {f \in [1..m -> 1..m] : \A i, j \in 1..m : f[i] = f[j] => i = j}

\* the non-empty call and put symbols of the rows
SymbolsIn(rows) ==
  {x \in {Get(rows[i], key) :
            i \in {j \in 1..Len(rows) : rows[j].t = "dict"},
            key \in {"call_symbol", "put_symbol"}} :
     x.t = "str" /\ x.v # <<>>}

\* C6: extract_option_symbols returns exactly the non-empty call and put
\* symbols of the chain rows, each once, in ascending lexicographic order,
\* whatever the order of the rows.
C6_SortedDistinctSymbols ==
  call_pc = "extract_option_symbols" =>
    LET rows == call_args.option_chain.v
    IN  /\ Range(call_ret) = SymbolsIn(rows)
        /\ Len(call_ret) = Cardinality(SymbolsIn(rows))
        /\ \A i, j \in 1..Len(call_ret) : i < j => LexBefore(call_ret[i].v, call_ret[j].v)
        /\ \A f \in Reorderings(Len(rows)) :
             extract_option_symbols(PyList([i \in 1..Len(rows) |-> rows[f[i]]])) = call_ret

\* C6 at work: an empty call symbol, C2 given twice and before C10; out came
\* C10, C2
C6_Witness ==
  /\ call_pc = "extract_option_symbols"
  /\ call_ret = <<SymC10, SymC2>>
  /\ Len(call_args.option_chain.v) = 2
  /\ call_args.option_chain.v[1].t = "dict"
  /\ call_args.option_chain.v[2].t = "dict"
  /\ Get(call_args.option_chain.v[1], "call_symbol") = EmptyStr
  /\ Get(call_args.option_chain.v[1], "put_symbol") = SymC2
  /\ Get(call_args.option_chain.v[2], "put_symbol") = SymC2

\* the row's strike is numerically the requested one
StrikeMatches(row, strike) ==
  Get(row, "strike_price") # PyNone /\ float(Get(row, "strike_price")) = float(strike)

\* what the claim has a row contribute: nothing when a strike is given and the
\* row's strike is not equal to it, else the sides asked for
Claimed(row, strike, right) ==
  IF row.t # "dict" \/ (strike # PyNone /\ ~StrikeMatches(row, strike)) THEN <<>>
  ELSE SelectSeq(
         (IF right # PUT
          THEN <<Contract(Get(row, "strike_price"), Get(row, "call_symbol"), CALL)>>
          ELSE <<>>)
         \o (IF right # CALL
             THEN <<Contract(Get(row, "strike_price"), Get(row, "put_symbol"), PUT)>>
             ELSE <<>>),
         LAMBDA r : r.symbol.t = "str" /\ r.symbol.v # <<>>)

\* C5: filter_chain_rows skips a row whenever a strike is given and the row's
\* strike is not numerically equal to it, so with a strike given every record
\* has that strike; the rows left give the call record, the put record or both
\* as right asks, without the sides whose symbol is empty, in row order, call
\* before put.
C5_FilterChainRows ==
  call_pc = "filter_chain_rows" =>
    LET rows == call_args.option_chain.v
    IN  /\ call_ret =
             Concat([i \in 1..Len(rows) |->
                       Claimed(rows[i], call_args.strike, call_args.right)])
        /\ call_args.strike # PyNone =>
             \A k \in 1..Len(call_ret) :
               /\ call_ret[k].strike_price # PyNone
               /\ float(call_ret[k].strike_price) = float(call_args.strike)

IsPrimitive(x) == x.t \in {"str", "int", "float", "bool"}

\* C9: to_python of an enumeration gives the underlying value when that is a
\* string, a number or a boolean; otherwise it treats the enumeration as any
\* other object (a mapping of its public attributes, of which an enumeration
\* member has none), so what comes out is a JSON value.  (An underlying None,
\* which is JSON's null, is let through either way.)
C9_EnumNormalized ==
  (call_pc = "return" /\ call_args.t = "Enum") =>
    IF IsPrimitive(call_args.v)
    THEN call_ret = call_args.v
    ELSE \/ call_args.v = PyNone
         \/ /\ call_ret = PyDict(EmptyMap)
            /\ json_serializable(call_ret)

\* ------------------------------------------------------- the run as a whole
Categories == {"depth", "trades", "brokers"}

RowsOf(c) ==
  CASE c = "depth" -> depth_rows [] c = "trades" -> trade_rows [] c = "brokers" -> broker_rows

CandidatesOf(c) ==
  CASE c = "depth" -> DepthNames [] c = "trades" -> TradesNames [] c = "brokers" -> BrokersNames

\* the symbols of the rows of a category, and of the errors recorded for it
RowSymbols(c) == [i \in 1..Len(RowsOf(c)) |-> RowsOf(c)[i].symbol]
ErrorsOf(c) == SelectSeq(errors, LAMBDA e : e.api = c)
ErrorSymbols(c) == [i \in 1..Len(ErrorsOf(c)) |-> ErrorsOf(c)[i].symbol]

Count(q, x) == Cardinality({i \in 1..Len(q) : q[i] = x})

\* the positions of the option symbols whose retrieval for c raised
RaisedAt(c) == {call.n : call \in {x \in loop_calls : x.api = c /\ x.raised}}

\* q without its k-th element
Without(q, k) == SubSeq(q, 1, k - 1) \o SubSeq(q, k + 1, Len(q))

\* the loop is over
LoopDone == pc \in {"assemble", "write_json", "write_markdown", "done"} \/ files # {}

\* C4: a retrieval of the loop that raises never ends the run; and when, for
\* a category, the retrieval raised for exactly one symbol, the loop has still
\* made one retrieval per symbol and category, the error list holds exactly
\* one entry for that category, which names that symbol, and the rows of the
\* category are those of all the other symbols.
C4_PartialFailureTolerated ==
  /\ loop_calls # {} => (pc # "exit" \/ exit_error = TypeError)
  /\ LoopDone =>
       \A c \in Categories : \A k \in 1..Len(option_symbols) :
         RaisedAt(c) = {k} =>
           /\ \A c2 \in Categories : \A k2 \in 1..Len(option_symbols) :
                Cardinality({x \in loop_calls : x.api = c2 /\ x.n = k2}) = 1
           /\ ErrorSymbols(c) = <<option_symbols[k]>>
           /\ RowSymbols(c) = Without(option_symbols, k)

\* C4 at work: of three symbols the depth of the second raised, the report
\* was written
C4_Witness ==
  /\ pc = "done"
  /\ Len(option_symbols) = 3
  /\ RaisedAt("depth") = {2}
  /\ Len(depth_rows) = 2

\* C10: when the try blocks of a category have run for the first k symbols,
\* each of these symbols is once in the rows of the category or once in its
\* errors, never both, and the rows are in symbol order; so after the loop
\* rows + errors of a category = option symbols.  The result reports the
\* length of the error list and of each row list.
BlocksRun(c) ==
  IF \/ pc = "depth"
     \/ pc = "trades" /\ c \in {"trades", "brokers"}
     \/ pc = "brokers" /\ c = "brokers"
  THEN n - 1 ELSE n

C10_RowsPlusErrors ==
  /\ \A c \in Categories :
       /\ \A k \in 1..Len(option_symbols) :
            Count(RowSymbols(c), option_symbols[k]) + Count(ErrorSymbols(c), option_symbols[k])
              = (IF k <= BlocksRun(c) THEN 1 ELSE 0)
       /\ Len(RowsOf(c)) + Len(ErrorsOf(c)) = BlocksRun(c)
       /\ \A i, j \in 1..Len(RowsOf(c)) :
            i < j => \E a, b \in 1..Len(option_symbols) :
                       /\ a < b
                       /\ option_symbols[a] = RowSymbols(c)[i]
                       /\ option_symbols[b] = RowSymbols(c)[j]
       /\ LoopDone => BlocksRun(c) = Len(option_symbols)
  /\ Len(errors) = Len(ErrorsOf("depth")) + Len(ErrorsOf("trades")) + Len(ErrorsOf("brokers"))
  /\ result # PyNone =>
       /\ result.summary.errors = Len(errors)
       /\ result.errors = errors
       /\ result.depth.count = Len(depth_rows) /\ result.depth.rows = depth_rows
       /\ result.trades.count = Len(trade_rows) /\ result.trades.rows = trade_rows
       /\ result.brokers.count = Len(broker_rows) /\ result.brokers.rows = broker_rows

\* C10 at work: three symbols, rows and errors in every category, the result
\* assembled
C10_Witness ==
  /\ result # PyNone
  /\ Len(option_symbols) = 3
  /\ Len(ErrorsOf("depth")) = 1 /\ Len(depth_rows) = 2
  /\ Len(ErrorsOf("brokers")) = 1 /\ Len(broker_rows) = 2
  /\ Len(trade_rows) = 3

\* every retrieval step of the run has been made
RetrievalFinished ==
  /\ option_chain # PyNone
  /\ option_quote # PyNone /\ static_info # PyNone /\ quote # PyNone
  /\ \A c \in Categories : \A k \in 1..Len(option_symbols) :
       \E x \in loop_calls : x.api = c /\ x.n = k

\* C7: a run that ends with a fatal error of the parsing, expiry, chain,
\* symbol or batched steps has opened no output file; a file is opened only
\* when every retrieval step has been made; and when the requested expiry is
\* not available, no operation after the expiry list has been invoked.
C7_NoOutputOnFatalPath ==
  /\ (pc = "exit" /\ exit_error # TypeError) => files = {}
  /\ files # {} => RetrievalFinished /\ result # PyNone
  /\ (pc = "exit" /\ exit_error.type = "SystemExit" /\ exit_error.message = "expiry") =>
       api_calls \subseteq {"expiry_dates"} /\ option_chain = PyNone

\* C7 at work: the expiry list, the chain and two batched fetches were served,
\* the third raised; nothing was written
C7_Witness ==
  /\ pc = "exit"
  /\ exit_error.type = "OpenApiException"
  /\ {"option_quote", "static_info", "quote"} \subseteq api_calls
  /\ static_info # PyNone /\ quote = PyNone
  /\ files = {}

\* The names a category's try_call invoked for the symbols after the first
NamesAfterFirst(c) ==
  UNION {Range(x.names) : x \in {y \in loop_calls : y.api = c /\ y.n > 1}}

\* C8: the full candidate list of a category is tried on the first symbol
\* only; for every later symbol one name, the remembered one, is all that is
\* invoked.
C8_FullListOnFirstSymbolOnly ==
  \A c \in Categories :
    /\ \A x \in loop_calls : (x.api = c /\ x.n > 1) => Len(x.tried) = 1
    /\ Cardinality(NamesAfterFirst(c)) <= 1

\* the calls of x's category for earlier symbols that returned
ServedBefore(x) == {y \in loop_calls : y.api = x.api /\ y.n < x.n /\ ~y.raised}

\* the name that served the call y: the last it invoked
ServedBy(y) == y.names[Len(y.names)]

\* C8 as amended: the full candidate list of a category is tried for every
\* symbol until a candidate has succeeded for one; for every symbol after
\* that one only the name that succeeded, the remembered one, is tried.
C8_RememberedAfterFirstSuccess ==
  \A x \in loop_calls :
    IF ServedBefore(x) = {}
    THEN x.tried = CandidatesOf(x.api)
    ELSE LET first == CHOOSE y \in ServedBefore(x) : \A z \in ServedBefore(x) : y.n <= z.n
         IN  /\ x.tried = <<ServedBy(first)>>
             /\ Range(x.names) \subseteq {ServedBy(first)}

\* C8 as amended, at work: the depth of the first symbol raised, the second
\* was served by security_depth after the full list was tried, the third
\* tried security_depth alone
C8_Witness ==
  /\ [api |-> "depth", n |-> 1, tried |-> DepthNames, raised |-> TRUE,
      names |-> <<"security_depth">>] \in loop_calls
  /\ [api |-> "depth", n |-> 2, tried |-> DepthNames, raised |-> FALSE,
      names |-> <<"security_depth">>] \in loop_calls
  /\ \E x \in loop_calls :
       x.api = "depth" /\ x.n = 3 /\ x.tried = <<"security_depth">>

====
